---------------------------- MODULE Spec2Model ----------------------------
(***************************************************************************)
(* Model of src/lab_5_scrapper/scrapper.py: configuration validation       *)
(* (Config), URL discovery (Crawler), article extraction (HTMLParser) and  *)
(* the main() pipeline.                                                    *)
(*                                                                         *)
(* Python strings that the code inspects or concatenates are modelled as   *)
(* sequences of one-character strings.  JSON values carry their Python     *)
(* type as a tag, because the code decides on isinstance().                *)
(***************************************************************************)
EXTENDS Integers, Sequences, FiniteSets, TLC

VARIABLES
    conf,       \* the JSON document stored at path_to_config
    pc,         \* control point of the running code
    exc,        \* the exception that ended the run, "none" while there is none
    config,     \* the Config object (its private fields), NoConfig before construction
    crawler,    \* the Crawler object: urls, url_pattern
    urls,       \* find_articles: the local list urls
    idx,        \* find_articles: position of the for loop in the seed list (1-based)
    response,   \* the value make_request returned last, NoResponse when none is held
    requests,   \* find_articles: how often each seed position has been requested
    id_num,     \* main: the enumerate counter
    parser,     \* the HTMLParser object: full_url, article_id, article
    site,       \* the document served at the parser's URL, AnySite when it may change
    calls,      \* the parse calls made on the parser: status and returned record
    events      \* calls made to the collaborators, in order

vars == <<conf, pc, exc, config, crawler, urls, idx, response, requests,
          id_num, parser, site, calls, events>>

-----------------------------------------------------------------------------
(* Bounds of the model *)

\* integers tried on each side of the limits of a numeric configuration field
Band == 2
\* largest valid target count the pipeline is run with
MaxTarget == 2
\* make_request calls find_articles may make before the model stops following it
MaxFetches == 6
\* listing blocks on a listing page
MaxBlocks == 2
\* calls of parse() on one HTMLParser object
MaxParses == 3

-----------------------------------------------------------------------------
(* Strings *)

HasPrefix(s, p) ==
    /\ Len(s) >= Len(p)
    /\ \A i \in 1..Len(p) : s[i] = p[i]

\* s[from..], 1-based
Tail_(s, from) == [i \in 1..(Len(s) - from + 1) |-> s[i + from - 1]]

\* position of the first occurrence of sep in s, 0 when there is none
FindFirst(s, sep) ==
    LET hits == {i \in 1..(Len(s) - Len(sep) + 1) : HasPrefix(Tail_(s, i), sep)}
    IN  IF hits = {} THEN 0 ELSE CHOOSE i \in hits : \A j \in hits : i <= j

\* str.split(sep)[0]
SplitHead(s, sep) ==
    LET at == FindFirst(s, sep)
    IN  IF at = 0 THEN s ELSE SubSeq(s, 1, at - 1)

CategorySep == <<"/", "c", "a", "t", "e", "g", "o", "r", "y">>

\* re.match(r'https?://(www.)?', s): anchored at the start of s; "s" and the
\* group "(www.)" are optional, so the match succeeds exactly when s starts
\* with "http://" or with "https://".
ReMatchSeed(s) ==
    LET http == <<"h", "t", "t", "p">>
        sep  == <<":", "/", "/">>
        rest == Tail_(s, 5)
    IN  /\ HasPrefix(s, http)
        /\ \/ /\ Len(rest) >= 1
              /\ rest[1] = "s"
              /\ HasPrefix(Tail_(rest, 2), sep)
           \/ HasPrefix(rest, sep)

-----------------------------------------------------------------------------
(* JSON values of the configuration document *)

PyInt(n)   == [type |-> "int", val |-> n]
PyBool(b)  == [type |-> "bool", val |-> IF b THEN 1 ELSE 0]
PyOther(t) == [type |-> t, val |-> 0]
PyStr(s)   == [type |-> "str", chars |-> s]
PyNum      == [type |-> "int", chars |-> <<>>]   \* a number where a string is expected

\* isinstance(v, int): bool is a subclass of int
IsInstanceInt(v) == v.type \in {"int", "bool"}
\* isinstance(v, bool)
IsInstanceBool(v) == v.type = "bool"

SeedA   == <<"h","t","t","p","s",":","/","/","a","/","c","a","t","e","g","o","r","y","/","n">>
SeedB   == <<"h","t","t","p",":","/","/","w","w","w",".","b">>
SeedFtp == <<"f","t","p",":","/","/","a">>
SeedRel == <<"/","c","a","t","e","g","o","r","y">>

SeedValues ==
    { [type |-> "list", items |-> <<>>],
      [type |-> "list", items |-> <<PyStr(SeedA)>>],
      [type |-> "list", items |-> <<PyStr(SeedB), PyStr(SeedA)>>],
      [type |-> "list", items |-> <<PyStr(SeedA), PyStr(SeedB), PyStr(SeedA)>>],
      [type |-> "list", items |-> <<PyStr(SeedA), PyStr(SeedFtp)>>],
      [type |-> "list", items |-> <<PyStr(SeedRel)>>],
      [type |-> "list", items |-> <<PyStr(SeedB), PyNum>>],
      [type |-> "str",  items |-> <<>>] }

MaxArticles == 150
TimeoutLimit == 60

Around(n) == (n - Band)..(n + Band)

CountValues ==
    {PyInt(n) : n \in Around(1) \cup Around(MaxArticles)}
        \cup {PyBool(TRUE), PyBool(FALSE), PyOther("float"), PyOther("str")}

TimeoutValues ==
    {PyInt(n) : n \in Around(0) \cup Around(TimeoutLimit)}
        \cup {PyBool(TRUE), PyOther("float"), PyOther("str")}

RawConfigs ==
    [ seed_urls : SeedValues,
      total_articles_to_find_and_parse : CountValues,
      headers : {PyOther("dict"), PyOther("list")},
      encoding : {PyOther("str"), PyOther("int")},
      timeout : TimeoutValues,
      should_verify_certificate : {PyBool(TRUE), PyInt(1)},
      headless_mode : {PyBool(FALSE), PyOther("str")} ]


-----------------------------------------------------------------------------
(* Config *)

RECURSIVE AllSeedsMatch(_)
\* all(re.match(r'https?://(www.)?', seed_url) for seed_url in items), evaluated
\* left to right: "no" at the first string that does not match, "TypeError" when
\* re.match is handed something that is not a string before that.
AllSeedsMatch(items) ==
    IF items = <<>> THEN "yes"
    ELSE IF Head(items).type # "str" THEN "TypeError"
    ELSE IF ~ReMatchSeed(Head(items).chars) THEN "no"
    ELSE AllSeedsMatch(Tail(items))

\* num_of_a > 0 and num_of_a in range(1, 151), on a Python int or bool
CountIsPositive(v) == v.val > 0
CountInRange(v) == v.val \in 1..MaxArticles

\* 0 <= timeout < 60
TimeoutInRange(v) == 0 <= v.val /\ v.val < TimeoutLimit

\* isinstance(num_of_a, int)
CountIsInt(v) == IsInstanceInt(v)

\* The out-of-range test placed before the positivity test.
CountCheck_RangeFirst(v) ==
    IF ~CountIsInt(v) THEN "IncorrectNumberOfArticlesError"
    ELSE IF ~CountInRange(v) THEN "NumberOfArticlesOutOfRangeError"
    ELSE "none"
\* Lines 120-125: the two checks of the target count, in the code's order.
CountCheck(v) ==
    IF ~CountIsInt(v) \/ ~CountIsPositive(v) THEN "IncorrectNumberOfArticlesError"
    ELSE IF ~CountInRange(v) THEN "NumberOfArticlesOutOfRangeError"
    ELSE "none"

\* Config._validate_config_content: the exception it raises, "none" when it returns.
ValidateConfigContent(c) ==
    LET seeds == c.seed_urls
        match == IF seeds.type = "list" THEN AllSeedsMatch(seeds.items) ELSE "no"
    IN  IF match = "TypeError" THEN "TypeError"
        ELSE IF match = "no" THEN "IncorrectSeedURLError"
        ELSE IF CountCheck(c.total_articles_to_find_and_parse) # "none"
            THEN CountCheck(c.total_articles_to_find_and_parse)
        ELSE IF c.headers.type # "dict" THEN "IncorrectHeadersError"
        ELSE IF c.encoding.type # "str" THEN "IncorrectEncodingError"
        ELSE IF ~IsInstanceInt(c.timeout) \/ ~TimeoutInRange(c.timeout)
            THEN "IncorrectTimeoutError"
        ELSE IF ~IsInstanceBool(c.should_verify_certificate) THEN "IncorrectVerifyError"
        ELSE IF ~IsInstanceBool(c.headless_mode) THEN "IncorrectVerifyError"
        ELSE "none"

NoConfig == [built |-> FALSE]

\* Config._extract_config_content and the assignments of Config.__init__
ExtractConfigContent(c) ==
    [ built |-> TRUE,
      seed_urls |-> [i \in 1..Len(c.seed_urls.items) |-> c.seed_urls.items[i].chars],
      num_articles |-> c.total_articles_to_find_and_parse,
      timeout |-> c.timeout ]

\* Config.get_seed_urls, Config.get_num_articles
GetSeedUrls(cfg) == cfg.seed_urls
GetNumArticles(cfg) == cfg.num_articles

-----------------------------------------------------------------------------
(* Responses of make_request *)

NoResponse == [kind |-> "none", ok |-> FALSE, body |-> <<>>]
\* a response whose status is not a success; its body is never read
NotOk      == [kind |-> "listing", ok |-> FALSE, body |-> <<>>]
OkListing(page) == [kind |-> "listing", ok |-> TRUE, body |-> page]

HrefA == <<"/", "a">>
HrefB == <<"/", "b">>

\* A 'post-details' div is the sequence of the href values of the anchors in it.
Blocks == { <<>>, <<HrefA>>, <<HrefB, HrefA>> }

\* A listing page is the sequence of its 'post-details' divs, in document order.
Pages == UNION { [1..n -> Blocks] : n \in 0..MaxBlocks }

ListingResponses == {NotOk} \cup {OkListing(p) : p \in Pages}

-----------------------------------------------------------------------------
(* Crawler *)

NoCrawler == [built |-> FALSE, urls |-> <<>>, url_pattern |-> <<>>]

\* Crawler.__init__ on a non-empty seed list
CrawlerNew(cfg) ==
    [ built |-> TRUE,
      urls |-> <<>>,
      url_pattern |-> SplitHead(GetSeedUrls(cfg)[1], CategorySep) ]

RECURSIVE Flatten(_)
Flatten(seqs) == IF seqs = <<>> THEN <<>> ELSE Head(seqs) \o Flatten(Tail(seqs))

\* Crawler._extract_url: url is overwritten by every anchor of every block, so
\* the href that remains is the last one; '' when there is no anchor.
ExtractUrl(url_pattern, page) ==
    LET hrefs == Flatten(page)
    IN  url_pattern \o (IF hrefs = <<>> THEN <<>> ELSE hrefs[Len(hrefs)])

\* One URL for every block of the page that has an anchor: the first anchor's.
RECURSIVE PerBlockUrls(_, _)
PerBlockUrls(url_pattern, page) ==
    IF page = <<>> THEN <<>>
    ELSE (IF Head(page) = <<>> THEN <<>> ELSE <<url_pattern \o Head(page)[1]>>)
             \o PerBlockUrls(url_pattern, Tail(page))

\* Appends one URL per listing block instead of one per page.
FoundUrls_PerBlock(found, url_pattern, resp) ==
    IF ~resp.ok THEN found ELSE found \o PerBlockUrls(url_pattern, resp.body)
\* Lines 267-271: the body of the for loop of find_articles, on the list urls.
FoundUrls(found, url_pattern, resp) ==
    IF ~resp.ok THEN found ELSE Append(found, ExtractUrl(url_pattern, resp.body))

\* Line 263: len(urls) < self.config.get_num_articles()
KeepSearching(found, cfg) == Len(found) < GetNumArticles(cfg).val

Total(f) == LET RECURSIVE Sum(_)
                Sum(n) == IF n = 0 THEN 0 ELSE f[n] + Sum(n - 1)
            IN  Sum(Len(f))

-----------------------------------------------------------------------------
(* Article pages and datetime.strptime *)

Digits == <<"0", "1", "2", "3", "4", "5", "6", "7", "8", "9">>
IsDigit(c) == \E i \in 1..10 : Digits[i] = c
DigitValue(c) == (CHOOSE i \in 1..10 : Digits[i] = c) - 1

RECURSIVE Number(_)
Number(s) == IF s = <<>> THEN 0 ELSE 10 * Number(SubSeq(s, 1, Len(s) - 1)) + DigitValue(s[Len(s)])

AllDigits(s) == \A i \in 1..Len(s) : IsDigit(s[i])

IsLeap(y) == (y % 4 = 0 /\ y % 100 # 0) \/ y % 400 = 0
DaysIn(m, y) ==
    IF m = 2 THEN (IF IsLeap(y) THEN 29 ELSE 28)
    ELSE IF m \in {4, 6, 9, 11} THEN 30 ELSE 31

NoDate == [set |-> FALSE, year |-> 0, month |-> 0, day |-> 0]

\* datetime.datetime.strptime(s, '%d.%m.%Y'): the date, or set = FALSE for the
\* ValueError it raises when s does not have the form or is no calendar date.
StrpTime(s) ==
    LET dot == <<".">>
        d   == SplitHead(s, dot)
        r1  == IF Len(d) < Len(s) THEN Tail_(s, Len(d) + 2) ELSE <<>>
        m   == SplitHead(r1, dot)
        y   == IF Len(m) < Len(r1) THEN Tail_(r1, Len(m) + 2) ELSE <<>>
        wellFormed ==
            /\ Len(d) \in 1..2 /\ AllDigits(d)
            /\ Len(m) \in 1..2 /\ AllDigits(m)
            /\ Len(y) = 4 /\ AllDigits(y)
    IN  IF /\ wellFormed
           /\ Number(y) >= 1
           /\ Number(m) \in 1..12
           /\ Number(d) \in 1..DaysIn(Number(m), Number(y))
        THEN [set |-> TRUE, year |-> Number(y), month |-> Number(m), day |-> Number(d)]
        ELSE NoDate

Absent == [found |-> FALSE, text |-> <<>>]
Node(t) == [found |-> TRUE, text |-> t]

DateGood == <<"0","1",".","0","2",".","2","0","2","3">>
DateIso  == <<"2","0","2","3","-","0","2","-","0","1">>

NotFound == <<"N","O","T"," ","F","O","U","N","D">>

\* An article page, as far as the extractor looks at it:
\*   title   the first node of class 'post-title entry-title'
\*   author  the first node find(tag_='meta content', property_='og:site_name') matches
\*   date    the first node of class 'date meta-item tie-icon'
\*   topics  the texts of the nodes of class 'mega-links-head', in document order
\*   hasDiv  whether the page has a div at all
\*   inner   the texts of the 'entry-content entry clearfix' divs inside the first div
Docs ==
    [ title  : {Absent, Node(<<"T">>)},
      author : {Absent, Node(<<"A">>)},
      date   : {Absent, Node(DateGood), Node(DateIso)},
      topics : {<<>>, << <<"S">> >>, << <<"S">>, <<"T">> >>},
      hasDiv : BOOLEAN,
      inner  : {<<>>, << <<"H","i">>, <<"!">> >>} ]

Served == {d \in Docs : d.hasDiv \/ d.inner = <<>>}

OkArticle(doc) == [kind |-> "article", ok |-> TRUE, body |-> doc]
NotOkArticle   == [kind |-> "article", ok |-> FALSE, body |-> <<>>]

-----------------------------------------------------------------------------
(* HTMLParser *)

\* Article(url, article_id) of core_utils: every field at its empty default
ArticleNew(url, id) ==
    [ url |-> url, article_id |-> id, title |-> <<>>, author |-> <<>>,
      date |-> NoDate, topics |-> <<>>, text |-> <<>> ]

NoParser == [built |-> FALSE]

\* HTMLParser.__init__
HTMLParserNew(full_url, article_id) ==
    [ built |-> TRUE, full_url |-> full_url, article_id |-> article_id,
      article |-> ArticleNew(full_url, article_id) ]

\* HTMLParser._fill_article_with_text
FillArticleWithText(article, doc) ==
    [article EXCEPT !.text = IF doc.hasDiv THEN Flatten(doc.inner) ELSE <<>>]

\* HTMLParser._fill_article_with_meta_information: the article as it leaves it
\* and the exception it raises ("none" when it returns)
FillArticleWithMetaInformation(article, doc) ==
    LET a1 == IF doc.title.found THEN [article EXCEPT !.title = doc.title.text]
              ELSE article
        a2 == [a1 EXCEPT !.author =
                   Append(@, IF doc.author.found THEN doc.author.text ELSE NotFound)]
        dt == StrpTime(doc.date.text)
    IN  IF doc.date.found /\ ~dt.set
        THEN [article |-> a2, exc |-> "ValueError"]
        ELSE [article |-> [a2 EXCEPT !.date = IF doc.date.found THEN dt ELSE @,
                                     !.topics = @ \o doc.topics],
              exc |-> "none"]

\* Extracts whatever the status of the response is.
ParseOutcome_IgnoresStatus(article, resp) ==
    IF resp.ok
    THEN FillArticleWithMetaInformation(FillArticleWithText(article, resp.body), resp.body)
    ELSE [article |-> [article EXCEPT !.author = Append(@, NotFound)], exc |-> "none"]
\* Lines 371-376 of HTMLParser.parse: what happens to self.article for a response
ParseOutcome(article, resp) ==
    IF resp.ok
    THEN FillArticleWithMetaInformation(FillArticleWithText(article, resp.body), resp.body)
    ELSE [article |-> article, exc |-> "none"]

\* Persists only a record that has body text.
IsInstanceArticle_NeedsText(ret) == ret.text # <<>>
\* main, line 403: isinstance(article, Article); parse returns self.article
IsInstanceArticle(ret) == TRUE

-----------------------------------------------------------------------------
(* Initial states *)

ValidRest ==
    [ headers |-> PyOther("dict"), encoding |-> PyOther("str"), timeout |-> PyInt(5),
      should_verify_certificate |-> PyBool(TRUE), headless_mode |-> PyBool(FALSE) ]

RawConfig(seeds, count) ==
    [ seed_urls |-> seeds,
      total_articles_to_find_and_parse |-> count,
      headers |-> ValidRest.headers,
      encoding |-> ValidRest.encoding,
      timeout |-> ValidRest.timeout,
      should_verify_certificate |-> ValidRest.should_verify_certificate,
      headless_mode |-> ValidRest.headless_mode ]

\* The configuration documents main() is run on.
MainConfigs ==
    { RawConfig(seeds, count) :
        seeds \in SeedValues,
        count \in {PyInt(n) : n \in 0..MaxTarget} \cup {PyBool(TRUE)} }

AnySite == [fixed |-> FALSE, doc |-> <<>>]
FixedSite(d) == [fixed |-> TRUE, doc |-> <<d>>]

Blank ==
    /\ pc = "config"
    /\ exc = "none"
    /\ config = NoConfig
    /\ crawler = NoCrawler
    /\ urls = <<>>
    /\ idx = 0
    /\ response = NoResponse
    /\ requests = <<>>
    /\ id_num = 0
    /\ parser = NoParser
    /\ site = AnySite
    /\ calls = <<>>
    /\ events = <<>>

\* main() about to start on some configuration document
Init == conf \in MainConfigs /\ Blank

\* Config(path) about to be constructed on any configuration document
InitConfig == conf \in RawConfigs /\ Blank

\* An HTMLParser just constructed for a URL whose page does not change
InitParser ==
    /\ conf = RawConfig([type |-> "list", items |-> <<PyStr(SeedA)>>], PyInt(1))
    /\ config = ExtractConfigContent(conf)
    /\ \E url \in {SplitHead(SeedA, CategorySep) \o HrefA, SeedB} , id \in 1..2 :
            parser = HTMLParserNew(url, id)
    /\ \E d \in Served : site = FixedSite(d)
    /\ pc = "request"
    /\ exc = "none"
    /\ crawler = NoCrawler
    /\ urls = <<>>
    /\ idx = 0
    /\ response = NoResponse
    /\ requests = <<>>
    /\ id_num = 0
    /\ calls = <<>>
    /\ events = <<>>

-----------------------------------------------------------------------------
(* Actions *)

\* Config.__init__ (main, line 395)
ConfigInit ==
    /\ pc = "config" /\ exc = "none"
    /\ LET e == ValidateConfigContent(conf)
       IN  IF e # "none"
           THEN exc' = e /\ UNCHANGED <<pc, config>>
           ELSE /\ config' = ExtractConfigContent(conf)
                /\ pc' = "crawler"
                /\ UNCHANGED exc
    /\ UNCHANGED <<conf, crawler, urls, idx, response, requests, id_num, parser,
                   site, calls, events>>

\* Crawler.__init__ (main, line 396): seed_urls[0] raises IndexError on an empty list
CrawlerInit ==
    /\ pc = "crawler" /\ exc = "none"
    /\ IF GetSeedUrls(config) = <<>>
       THEN exc' = "IndexError" /\ UNCHANGED <<pc, crawler>>
       ELSE /\ crawler' = CrawlerNew(config)
            /\ pc' = "find"
            /\ UNCHANGED exc
    /\ UNCHANGED <<conf, config, urls, idx, response, requests, id_num, parser,
                   site, calls, events>>

\* find_articles, line 262: urls = []
FindArticlesStart ==
    /\ pc = "find" /\ exc = "none"
    /\ urls' = <<>>
    /\ requests' = [i \in 1..Len(GetSeedUrls(config)) |-> 0]
    /\ pc' = "while"
    /\ UNCHANGED <<conf, exc, config, crawler, idx, response, id_num, parser,
                   site, calls, events>>

\* find_articles, lines 263 and 273: the while test; self.urls.extend(urls) on exit
WhileTest ==
    /\ pc = "while" /\ exc = "none"
    /\ IF KeepSearching(urls, config)
       THEN idx' = 1 /\ pc' = "for" /\ UNCHANGED crawler
       ELSE /\ crawler' = [crawler EXCEPT !.urls = @ \o urls]
            /\ pc' = "prepare"
            /\ UNCHANGED idx
    /\ UNCHANGED <<conf, exc, config, urls, response, requests, id_num, parser,
                   site, calls, events>>

\* find_articles, line 265: make_request on the next seed URL; requests.get
\* returns a response or raises
ForRequest ==
    /\ pc = "for" /\ exc = "none"
    /\ idx <= Len(GetSeedUrls(config))
    /\ Total(requests) < MaxFetches
    /\ requests' = [requests EXCEPT ![idx] = @ + 1]
    /\ \/ \E r \in ListingResponses :
              response' = r /\ pc' = "got" /\ UNCHANGED exc
       \/ exc' = "RequestException" /\ UNCHANGED <<response, pc>>
    /\ UNCHANGED <<conf, config, crawler, urls, idx, id_num, parser,
                   site, calls, events>>

\* find_articles, line 264: the for loop has gone through the seed URLs
ForExhausted ==
    /\ pc = "for" /\ exc = "none"
    /\ idx > Len(GetSeedUrls(config))
    /\ pc' = "while"
    /\ UNCHANGED <<conf, exc, config, crawler, urls, idx, response, requests,
                   id_num, parser, site, calls, events>>

\* find_articles, lines 267-271: skip a response that is not ok, else append
ForBody ==
    /\ pc = "got" /\ exc = "none"
    /\ urls' = FoundUrls(urls, crawler.url_pattern, response)
    /\ idx' = idx + 1
    /\ response' = NoResponse
    /\ pc' = "for"
    /\ UNCHANGED <<conf, exc, config, crawler, requests, id_num, parser,
                   site, calls, events>>

Call(name, article) == [call |-> name, id |-> article.article_id, url |-> article.url]

\* main, line 398: prepare_environment(ASSETS_PATH), then the loop starts at 1
PrepareEnvironment ==
    /\ pc = "prepare" /\ exc = "none"
    /\ events' = Append(events, Call("prepare_environment", ArticleNew(<<>>, 0)))
    /\ id_num' = 1
    /\ pc' = "loop"
    /\ UNCHANGED <<conf, exc, config, crawler, urls, idx, response, requests,
                   parser, site, calls>>

\* main, lines 400-401: the next (id_num, url) of enumerate(crawler.urls, 1)
MainLoop ==
    /\ pc = "loop" /\ exc = "none"
    /\ IF id_num <= Len(crawler.urls)
       THEN /\ parser' = HTMLParserNew(crawler.urls[id_num], id_num)
            /\ calls' = <<>>
            /\ pc' = "request"
       ELSE pc' = "done" /\ UNCHANGED <<parser, calls>>
    /\ UNCHANGED <<conf, exc, config, crawler, urls, idx, response, requests,
                   id_num, site, events>>

\* HTMLParser.parse, line 370: make_request on the article URL
ParseRequest ==
    /\ pc = "request" /\ exc = "none"
    /\ \/ \E r \in {NotOkArticle} \cup
                   {OkArticle(d) : d \in IF site.fixed THEN {site.doc[1]} ELSE Served} :
              response' = r /\ pc' = "body" /\ UNCHANGED exc
       \/ exc' = "RequestException" /\ UNCHANGED <<response, pc>>
    /\ UNCHANGED <<conf, config, crawler, urls, idx, requests, id_num, parser,
                   site, calls, events>>

\* HTMLParser.parse, lines 371-376
ParseBody ==
    /\ pc = "body" /\ exc = "none"
    /\ LET out == ParseOutcome(parser.article, response)
       IN  /\ parser' = [parser EXCEPT !.article = out.article]
           /\ IF out.exc # "none"
              THEN exc' = out.exc /\ UNCHANGED <<pc, calls, response>>
              ELSE /\ calls' = Append(calls, [ok |-> response.ok, record |-> out.article])
                   /\ response' = NoResponse
                   /\ pc' = "parsed"
                   /\ UNCHANGED exc
    /\ UNCHANGED <<conf, config, crawler, urls, idx, requests, id_num, site, events>>

\* main, lines 402-405: parse returned self.article; to_raw and to_meta on it
Persist ==
    /\ pc = "parsed" /\ exc = "none"
    /\ events' = IF IsInstanceArticle(parser.article)
                 THEN events \o <<Call("to_raw", parser.article),
                                  Call("to_meta", parser.article)>>
                 ELSE events
    /\ id_num' = id_num + 1
    /\ pc' = "loop"
    /\ UNCHANGED <<conf, exc, config, crawler, urls, idx, response, requests,
                   parser, site, calls>>

\* A caller that holds on to the HTMLParser object calls parse() again.
ParseAgain ==
    /\ pc = "parsed" /\ exc = "none"
    /\ Len(calls) < MaxParses
    /\ pc' = "request"
    /\ UNCHANGED <<conf, exc, config, crawler, urls, idx, response, requests,
                   id_num, parser, site, calls, events>>

-----------------------------------------------------------------------------
(* Specifications *)

\* main()
Next ==
    \/ ConfigInit
    \/ CrawlerInit
    \/ FindArticlesStart
    \/ WhileTest
    \/ ForRequest
    \/ ForExhausted
    \/ ForBody
    \/ PrepareEnvironment
    \/ MainLoop
    \/ ParseRequest
    \/ ParseBody
    \/ Persist

Spec == Init /\ [][Next]_vars

\* Config(path) on every configuration document
SpecConfig == InitConfig /\ [][ConfigInit]_vars

\* One HTMLParser object, parse() called on it up to MaxParses times
NextParser == ParseRequest \/ ParseBody \/ ParseAgain

SpecParser == InitParser /\ [][NextParser]_vars

-----------------------------------------------------------------------------
(* Properties of Config validation (SpecConfig) *)

\* Config(path) has run: it raised, or it returned and main went on.
Validated == exc # "none" \/ pc # "config"
Accepted == exc = "none" /\ pc # "config"

Count == conf.total_articles_to_find_and_parse

\* seed_urls is a non-empty list of strings that all match http(s)://
SeedsValidIn(c) ==
    /\ c.seed_urls.type = "list"
    /\ c.seed_urls.items # <<>>
    /\ \A i \in 1..Len(c.seed_urls.items) :
            /\ c.seed_urls.items[i].type = "str"
            /\ ReMatchSeed(c.seed_urls.items[i].chars)

SeedsValid == SeedsValidIn(conf)

\* A document every field of which is valid on every reading of the rules.
PlainlyValid(c) ==
    /\ SeedsValidIn(c)
    /\ c.total_articles_to_find_and_parse.type = "int"
    /\ c.total_articles_to_find_and_parse.val \in 1..MaxArticles
    /\ c.headers.type = "dict"
    /\ c.encoding.type = "str"
    /\ c.timeout.type = "int"
    /\ c.timeout.val \in 1..(TimeoutLimit - 1)
    /\ c.should_verify_certificate.type = "bool"
    /\ c.headless_mode.type = "bool"

\* Every field but f is valid.
OtherwiseValid(f, good) == PlainlyValid([conf EXCEPT ![f] = good])

\* C2 as stated: an integer target count outside [1,150], with valid seed URLs,
\* always fails validation with NumberOfArticlesOutOfRangeError.
C2_OutOfRangeAlwaysRangeError ==
    (Validated /\ SeedsValid /\ Count.type = "int" /\ Count.val \notin 1..MaxArticles)
        => exc = "NumberOfArticlesOutOfRangeError"

\* C2 as amended: with valid seed URLs, an integer target count above 150 fails
\* with NumberOfArticlesOutOfRangeError and an integer target count of 0 or less
\* fails with IncorrectNumberOfArticlesError; neither is accepted.
C2_OutOfRangeRejected ==
    (Validated /\ SeedsValid /\ Count.type = "int")
        => /\ Count.val > MaxArticles => exc = "NumberOfArticlesOutOfRangeError"
           /\ Count.val <= 0 => exc = "IncorrectNumberOfArticlesError"

C2_Witness ==
    /\ Validated /\ SeedsValid /\ Count.type = "int"
    /\ Count.val = MaxArticles + 1
    /\ exc = "NumberOfArticlesOutOfRangeError"

\* C3: an otherwise valid configuration whose timeout is the integer 0 or the
\* integer 60 fails validation with IncorrectTimeoutError.
C3_TimeoutBoundsExclusive ==
    (/\ Validated
     /\ OtherwiseValid("timeout", ValidRest.timeout)
     /\ conf.timeout.type = "int"
     /\ conf.timeout.val \in {0, TimeoutLimit})
        => exc = "IncorrectTimeoutError"

\* C4: in a configuration that is otherwise valid, seed_urls passes the check
\* exactly when it is a non-empty list whose every entry matches http(s)://; an
\* empty list, a list of strings with an entry that does not match, and a value
\* that is no list fail with IncorrectSeedURLError.
C4_SeedCheckExact ==
    (/\ Validated
     /\ OtherwiseValid("seed_urls", [type |-> "list", items |-> <<PyStr(SeedA)>>])
     /\ \A i \in 1..Len(conf.seed_urls.items) : conf.seed_urls.items[i].type = "str")
        => IF SeedsValid THEN Accepted ELSE exc = "IncorrectSeedURLError"

\* C5: an otherwise valid configuration whose target count is a boolean fails
\* validation with IncorrectNumberOfArticlesError.
C5_BooleanCountRejected ==
    (/\ Validated
     /\ OtherwiseValid("total_articles_to_find_and_parse", PyInt(1))
     /\ Count.type = "bool")
        => exc = "IncorrectNumberOfArticlesError"

-----------------------------------------------------------------------------
(* Properties of the pipeline (Spec) *)

FindArticlesReturned == pc \in {"prepare", "loop", "request", "body", "parsed", "done"}

\* C1: find_articles requests every seed URL at most once, and exactly once
\* by the time it returns.
C1_SinglePass ==
    /\ \A i \in DOMAIN requests : requests[i] <= 1
    /\ FindArticlesReturned => \A i \in DOMAIN requests : requests[i] = 1

\* C6: a successfully fetched listing page whose blocks all have an anchor adds
\* one URL per block, in document order: the prefix followed by the href of the
\* block's first anchor.
C6_OneUrlPerBlock ==
    [][(/\ pc = "got" /\ exc = "none"
        /\ response.ok
        /\ \A b \in 1..Len(response.body) : response.body[b] # <<>>)
          => urls' = urls \o PerBlockUrls(crawler.url_pattern, response.body)]_vars

\* C7: prepare_environment is the first collaborator call and the only one of
\* its kind; the parser at work has id id_num and the id_num-th discovered URL;
\* the calls after it are to_raw and to_meta on record 1, on record 2, ..., each
\* with that record's URL; when main is done every discovered URL has its pair.
C7_PipelineOrder ==
    LET persisted == IF events = <<>> THEN <<>> ELSE Tail(events)
    IN  /\ pc \in {"loop", "request", "body", "parsed", "done"} <=> events # <<>>
        /\ events # <<>> => events[1].call = "prepare_environment"
        /\ \A i \in 1..Len(persisted) :
              LET k == (i + 1) \div 2
              IN  /\ persisted[i].call = (IF i % 2 = 1 THEN "to_raw" ELSE "to_meta")
                  /\ persisted[i].id = k
                  /\ k <= Len(crawler.urls)
                  /\ persisted[i].url = crawler.urls[k]
        /\ pc \in {"request", "body", "parsed"} =>
              /\ parser.article_id = id_num
              /\ parser.full_url = crawler.urls[id_num]
              /\ parser.article.article_id = id_num
              /\ parser.article.url = crawler.urls[id_num]
              /\ Len(persisted) = 2 * (id_num - 1)
        /\ pc = "loop" => Len(persisted) = 2 * (id_num - 1)
        /\ pc = "done" => Len(persisted) = 2 * Len(crawler.urls)

\* main is done after at least two articles, the last of which came from a
\* response that was not ok and was persisted all the same
C7_Witness ==
    /\ pc = "done"
    /\ Len(crawler.urls) >= 2
    /\ calls # <<>> /\ ~calls[Len(calls)].ok
    /\ events[Len(events)] = Call("to_meta", parser.article)

\* C10: when find_articles has returned on a fresh Crawler with S seed URLs and
\* target N, N <= len(crawler.urls) < N + S, and main persists fewer than N + S
\* articles.
C10_UrlCountBounds ==
    FindArticlesReturned =>
        LET n == GetNumArticles(config).val
            s == Len(GetSeedUrls(config))
        IN  /\ n <= Len(crawler.urls)
            /\ Len(crawler.urls) < n + s
            /\ Len(events) - 1 <= 2 * Len(crawler.urls)

\* main is done having persisted more articles than the target asked for
C10_Witness ==
    /\ pc = "done"
    /\ Len(crawler.urls) > GetNumArticles(config).val
    /\ Len(events) = 1 + 2 * Len(crawler.urls)

-----------------------------------------------------------------------------
(* Properties of HTMLParser.parse (SpecParser) *)

\* C8: every call of parse that fetched the same document successfully
\* returns the same record.
C8_ParseIdempotent ==
    \A i, j \in 1..Len(calls) :
        (calls[i].ok /\ calls[j].ok) => calls[i].record = calls[j].record

\* C9: on a response that is not ok, parse raises nothing and returns the
\* record it held before the call, unchanged; if no earlier call on this
\* parser extracted anything, that is the record as created: the parser's id
\* and URL, and every other field at its empty default.
C9_NotOkLeavesRecord ==
    [][(pc = "body" /\ exc = "none" /\ ~response.ok)
          => /\ exc' = "none"
             /\ pc' = "parsed"
             /\ parser'.article = parser.article
             /\ calls'[Len(calls')].record = parser.article
             /\ (\A i \in 1..Len(calls) : ~calls[i].ok)
                    => calls'[Len(calls')].record
                           = ArticleNew(parser.full_url, parser.article_id)]_vars

\* the first parse call on a parser has returned after a response that was not ok
C9_Witness ==
    /\ pc = "parsed"
    /\ Len(calls) = 1
    /\ ~calls[1].ok
    /\ calls[1].record = ArticleNew(parser.full_url, parser.article_id)

=============================================================================
